---- MODULE Spec2Model ----
(***************************************************************************)
(* Interior estimator: the Streamlit form handler `main` of app.py and the *)
(* estimate calculation it calls.                                          *)
(*                                                                         *)
(* One behaviour of the model is a sequence of script runs of `main`, each *)
(* triggered by one submission of the form from a freshly loaded page.     *)
(* Inside a run the handler advances through the positions of `main` that  *)
(* the claims distinguish (pc); no other run interleaves with it.          *)
(*                                                                         *)
(* Numbers are exact rationals [n, d] in lowest terms, so that 2.5 m and a *)
(* labour rate of 0.05 are representable and no step rounds.               *)
(***************************************************************************)
EXTENDS Integers, Sequences, FiniteSets, TLC

VARIABLES
    pc,          \* position of the handler inside main
    reportlab,   \* whether the PDF drawing library is installed
    typed,       \* what the user typed into the form widgets in this run
    form,        \* the values the widgets returned (lines 34-51)
    room,        \* RoomMeasurements object of this run (line 55)
    prices,      \* UnitPrices object of this run (lines 40, 56-60)
    estimate,    \* the Estimate object: its instance attributes by name
    display,     \* elements the page shows for this run, in order
    pdf_buffer,  \* local pdf_buffer: NoObject, None or a BytesIO
    probe,       \* outcome of the availability probe of this run
    pdfCalls,    \* file arguments of the Estimate.to_pdf calls of this run
    raised,      \* exceptions document rendering raised in this run
    escaped,     \* an exception left main in this run
    shown,       \* the value= defaults the price widgets showed in this run
    tmp,         \* names of the NamedTemporaryFile the with block holds open
    fs,          \* temporary files that exist: name -> content
    earlier      \* history: the first run that submitted the form as loaded,
                 \* and whether a run with other input followed it

vars == <<pc, reportlab, typed, form, room, prices, estimate, display,
          pdf_buffer, probe, pdfCalls, raised, escaped, shown, tmp, fs,
          earlier>>

-----------------------------------------------------------------------------
(* Bounds of the model *)

\* how many widgets the user changes before pressing the submit button
MaxEdits == 1
\* how many temporary file names the operating system can hand out
MaxTmpFiles == 2

-----------------------------------------------------------------------------
(* Exact arithmetic *)

Abs(x) == IF x < 0 THEN -x ELSE x

RECURSIVE GCD(_, _)
GCD(a, b) == IF b = 0 THEN a ELSE GCD(b, a % b)

\* the rational n/d (d > 0) in lowest terms
Q(n, d) == LET g == GCD(Abs(n), d) IN [n |-> n \div g, d |-> d \div g]

Zero == Q(0, 1)
One == Q(1, 1)
Two == Q(2, 1)

QAdd(a, b) == Q(a.n * b.d + b.n * a.d, a.d * b.d)
QSub(a, b) == Q(a.n * b.d - b.n * a.d, a.d * b.d)
QMul(a, b) == Q(a.n * b.n, a.d * b.d)
QLeq(a, b) == a.n * b.d <= b.n * a.d
QMax(a, b) == IF QLeq(a, b) THEN b ELSE a

-----------------------------------------------------------------------------
(* Values that stand for Python objects *)

\* a local variable that is not bound yet
NoObject == [is |-> "unbound"]
None == [is |-> "None"]
\* io.BytesIO holding these bytes
BytesIO(bytes) == [is |-> "BytesIO", bytes |-> bytes]

\* file arguments of Estimate.to_pdf
DevNull == [file |-> "/dev/null"]
TmpPath(name) == [file |-> "NamedTemporaryFile", name |-> name]

TmpNames == 1..MaxTmpFiles

-----------------------------------------------------------------------------
(* The form: st.number_input widgets, app.py lines 34-51 *)

DimFields == {"length", "width", "height", "openings"}
PriceFields == {"cross_price", "floor_price", "baseboard_price", "disposal_price"}
Fields == DimFields \cup PriceFields \cup {"labour_rate"}

\* UnitPrices(): the price catalog with its default values
UnitPrices ==
    [cross_price     |-> Q(1200, 1),
     floor_price     |-> Q(8000, 1),
     baseboard_price |-> Q(900, 1),
     disposal_price  |-> Q(500, 1),
     labour_rate     |-> Q(1, 5)]

\* fault: one catalog object shared by all script runs and mutated in place
NewCatalogShared(previous) == IF previous = NoObject THEN UnitPrices ELSE previous

\* prices = UnitPrices(): a new object per script run
NewCatalog(previous) == UnitPrices

\* value= of each widget: literals for the dimensions, the catalog's
\* attributes for the prices and the labour rate
WidgetDefault(field, catalog) ==
    CASE field = "length"   -> Q(5, 1)
      [] field = "width"    -> Q(4, 1)
      [] field = "height"   -> Q(5, 2)
      [] field = "openings" -> Zero
      [] OTHER              -> catalog[field]

\* min_value= of each widget
MinValue(field) == Zero

\* no max_value=: the widget's upper limit is infinite
NoLimit == [n |-> 1, d |-> 0]

\* max_value= of each widget: only the labour rate has one
MaxValue(field) == IF field = "labour_rate" THEN One ELSE NoLimit

\* fault: a widget without min_value= and max_value= returns what was typed
NumberInputUnchecked(raw, min, max, default) == raw

\* st.number_input: a typed value outside [min_value, max_value] is not
\* accepted by the widget, which keeps returning its value= default
NumberInput(raw, min, max, default) ==
    IF QLeq(min, raw) /\ QLeq(raw, max) THEN raw ELSE default

\* what a user may type into each widget
Typeable(field) ==
    CASE field = "length"          -> {Q(6, 1), Q(-2, 1)}
      [] field = "width"           -> {Q(3, 1), Q(-1, 1)}
      [] field = "height"          -> {Zero, Q(-5, 2)}
      [] field = "openings"        -> {Q(10, 1), Q(50, 1), Q(-1, 1)}
      [] field = "cross_price"     -> {Zero, Q(-1200, 1)}
      [] field = "floor_price"     -> {Q(7000, 1), Q(-1, 1)}
      [] field = "baseboard_price" -> {Q(1801, 2), Q(-900, 1)}
      [] field = "disposal_price"  -> {Zero, Q(-500, 1)}
      [] OTHER                     -> {Zero, Q(2, 5), Q(21, 20), Q(-1, 20)}

\* the submission of the form as loaded, nothing typed
Untouched == <<>>

AllTypeable == UNION {Typeable(f) : f \in Fields}

\* the submissions: the widgets the user changed, with what was typed
TypedInputs ==
    UNION {{t \in [S -> AllTypeable] : \A f \in S : t[f] \in Typeable(f)} :
           S \in {S \in SUBSET Fields : Cardinality(S) <= MaxEdits}}

\* the values the nine widgets return for a submission
FormValues(t, catalog) ==
    [f \in Fields |->
        IF f \in DOMAIN t
        THEN NumberInput(t[f], MinValue(f), MaxValue(f), WidgetDefault(f, catalog))
        ELSE WidgetDefault(f, catalog)]

\* fault: height and openings passed in each other's place
MakeRoomSwapped(f) ==
    [length |-> f["length"], width |-> f["width"],
     height |-> f["openings"], openings_area |-> f["height"]]

\* RoomMeasurements(length=length, width=width, height=height,
\*                  openings_area=openings)
MakeRoom(f) ==
    [length |-> f["length"], width |-> f["width"],
     height |-> f["height"], openings_area |-> f["openings"]]

\* fault: the floor and baseboard prices assigned to each other's attribute
AssignPricesSwapped(catalog, f) ==
    [catalog EXCEPT !.cross_price     = f["cross_price"],
                    !.floor_price     = f["baseboard_price"],
                    !.baseboard_price = f["floor_price"],
                    !.disposal_price  = f["disposal_price"],
                    !.labour_rate     = f["labour_rate"]]

\* fault: the labour rate of the form is not assigned
AssignPricesNoRate(catalog, f) ==
    [catalog EXCEPT !.cross_price     = f["cross_price"],
                    !.floor_price     = f["floor_price"],
                    !.baseboard_price = f["baseboard_price"],
                    !.disposal_price  = f["disposal_price"]]

\* the five attribute assignments on the catalog of this run
AssignPrices(catalog, f) ==
    [catalog EXCEPT !.cross_price     = f["cross_price"],
                    !.floor_price     = f["floor_price"],
                    !.baseboard_price = f["baseboard_price"],
                    !.disposal_price  = f["disposal_price"],
                    !.labour_rate     = f["labour_rate"]]

-----------------------------------------------------------------------------
(* Room measurement and estimate calculator *)

floorArea(r) == QMul(r.length, r.width)
baseboardLength(r) == QMul(Two, QAdd(r.length, r.width))
grossWallArea(r) == QMul(baseboardLength(r), r.height)
netWallArea(r) == QMax(Zero, QSub(grossWallArea(r), r.openings_area))

EstimateLineItem(label, quantity, unitPrice) ==
    [label |-> label, quantity |-> quantity, unitPrice |-> unitPrice,
     subtotal |-> QMul(quantity, unitPrice)]

RECURSIVE SumSubtotals(_)
SumSubtotals(items) ==
    IF items = <<>> THEN Zero
    ELSE QAdd(items[1].subtotal, SumSubtotals(Tail(items)))

create_estimate_for_room(r, p) ==
    LET items == <<EstimateLineItem("wall covering", netWallArea(r), p.cross_price),
                   EstimateLineItem("flooring", floorArea(r), p.floor_price),
                   EstimateLineItem("baseboard", baseboardLength(r), p.baseboard_price),
                   EstimateLineItem("disposal", floorArea(r), p.disposal_price)>>
        materialSubtotal == SumSubtotals(items)
        laborCost == QMul(materialSubtotal, p.labour_rate)
    IN  [items |-> items,
         materialSubtotal |-> materialSubtotal,
         laborRateFraction |-> p.labour_rate,
         laborCost |-> laborCost,
         grandTotal |-> QAdd(materialSubtotal, laborCost)]

\* the attributes an Estimate has when the calculator returns it
EstimateAttributes == {"items", "materialSubtotal", "laborRateFraction",
                       "laborCost", "grandTotal"}

\* the calculated values of an Estimate object, whatever else it carries
EstimateData(e) == [a \in EstimateAttributes |-> e[a]]

-----------------------------------------------------------------------------
(* Estimate renderers *)

\* presentation-time rounding to whole yen, half up
RoundYen(q) == (2 * q.n + q.d) \div (2 * q.d)

RECURSIVE ItemLines(_)
ItemLines(items) ==
    IF items = <<>> THEN <<>>
    ELSE <<<<items[1].label, items[1].quantity, RoundYen(items[1].unitPrice),
             RoundYen(items[1].subtotal)>>>> \o ItemLines(Tail(items))

\* Estimate.to_text(): header, one line per item, subtotal, labour, total
to_text(e) ==
    <<<<"estimate">>>> \o ItemLines(e["items"]) \o
    <<<<"material subtotal", RoundYen(e["materialSubtotal"])>>,
      <<"labour cost", RoundYen(QMul(e["laborRateFraction"], Q(100, 1))),
        RoundYen(e["laborCost"])>>,
      <<"grand total", RoundYen(e["grandTotal"])>>>>

\* how a call of Estimate.to_pdf can end: without the drawing library it
\* raises RuntimeError; with it, it returns or fails while drawing or saving
ToPdfOutcomes(installed) ==
    IF installed THEN {"ok", "RuntimeError", "OSError"} ELSE {"RuntimeError"}

\* the bytes to_pdf saves: the content of the text report as a document
PdfBytes(e) == <<"%PDF">> \o to_text(e)

-----------------------------------------------------------------------------
(* Page elements *)

TextElement(e) == [kind |-> "text", body |-> to_text(e)]
InfoElement == [kind |-> "info", body |-> "reportlab required"]
ErrorElement == [kind |-> "error", body |-> "PDF generation failed"]
ExceptionElement(type) == [kind |-> "exception", body |-> type]
DownloadButton(data) ==
    [kind |-> "download_button",
     body |-> [data |-> data, file_name |-> "estimate.pdf",
               mime |-> "application/pdf"]]

Kinds(elements) == [i \in DOMAIN elements |-> elements[i].kind]

-----------------------------------------------------------------------------
(* The handler *)

Init ==
    /\ pc = "idle"
    /\ reportlab \in BOOLEAN
    /\ typed = Untouched
    /\ form = NoObject
    /\ room = NoObject
    /\ prices = NoObject
    /\ estimate = NoObject
    /\ display = <<>>
    /\ pdf_buffer = NoObject
    /\ probe = "none"
    /\ pdfCalls = <<>>
    /\ raised = {}
    /\ escaped = FALSE
    /\ shown = NoObject
    /\ tmp = {}
    /\ fs = <<>>
    /\ earlier = None

\* lines 31-60: the script reruns from the top, the widgets return their
\* values, the submit button returns True, room and prices are built
Submit(t) ==
    /\ pc = "idle"
    /\ LET catalog == NewCatalog(prices)
           f == FormValues(t, catalog)
       IN  /\ shown' = [w \in PriceFields \cup {"labour_rate"} |->
                           WidgetDefault(w, catalog)]
           /\ form' = f
           /\ room' = MakeRoom(f)
           /\ prices' = AssignPrices(catalog, f)
    /\ typed' = t
    /\ estimate' = NoObject
    /\ display' = <<>>
    /\ pdf_buffer' = NoObject
    /\ probe' = "none"
    /\ pdfCalls' = <<>>
    /\ raised' = {}
    /\ escaped' = FALSE
    /\ tmp' = {}
    /\ pc' = "create"
    /\ UNCHANGED <<reportlab, fs, earlier>>

\* line 62: estimate = create_estimate_for_room(room, prices)
CreateEstimate ==
    /\ pc = "create"
    /\ estimate' = create_estimate_for_room(room, prices)
    /\ earlier' = IF earlier = None
                  THEN IF typed = Untouched
                       THEN [typed |-> typed,
                             estimate |-> EstimateData(estimate'),
                             others |-> FALSE]
                       ELSE earlier
                  ELSE [earlier EXCEPT !.others = @ \/ typed # earlier.typed]
    /\ pc' = "text"
    /\ UNCHANGED <<reportlab, typed, form, room, prices, display, pdf_buffer,
                   probe, pdfCalls, raised, escaped, shown, tmp, fs>>

\* lines 64-66: st.text(estimate.to_text())
ShowText ==
    /\ pc = "text"
    /\ display' = Append(display, TextElement(estimate))
    /\ pc' = "probe"
    /\ UNCHANGED <<reportlab, typed, form, room, prices, estimate, pdf_buffer,
                   probe, pdfCalls, raised, escaped, shown, tmp, fs, earlier>>

\* fault: no else clause, the generation follows the try statement even
\* when the probe raised RuntimeError
ProbeClauseNoElse(outcome) ==
    CASE outcome = "ok"           -> "else"
      [] outcome = "RuntimeError" -> "else"
      [] OTHER                    -> "propagate"

\* fault: the try statement around the probe without its except clause
ProbeClauseNoExcept(outcome) ==
    CASE outcome = "ok" -> "else"
      [] OTHER          -> "propagate"

\* lines 69-75: which clause of the try statement around the probe runs
ProbeClause(outcome) ==
    CASE outcome = "ok"           -> "else"
      [] outcome = "RuntimeError" -> "except"
      [] OTHER                    -> "propagate"

\* lines 69-75: pdf_buffer = io.BytesIO(); estimate.to_pdf("/dev/null")
ProbePdf ==
    /\ pc = "probe"
    /\ pdf_buffer' = BytesIO(<<>>)
    /\ pdfCalls' = Append(pdfCalls, DevNull)
    /\ \E outcome \in ToPdfOutcomes(reportlab) :
          /\ probe' = outcome
          /\ raised' = IF outcome = "ok" THEN raised
                       ELSE raised \cup {[at |-> "probe", type |-> outcome]}
          /\ CASE ProbeClause(outcome) = "else" ->
                    /\ pc' = "generate"
                    /\ UNCHANGED <<display, escaped>>
               [] ProbeClause(outcome) = "except" ->
                    /\ display' = Append(display, InfoElement)
                    /\ pc' = "idle"
                    /\ UNCHANGED escaped
               [] OTHER ->
                    /\ escaped' = TRUE
                    /\ display' = Append(display, ExceptionElement(outcome))
                    /\ pc' = "idle"
    /\ UNCHANGED <<reportlab, typed, form, room, prices, estimate, shown, tmp,
                   fs, earlier>>

\* fault: a temporary file that outlives its with block (delete=False)
CloseTmpKept(files, names) == files

\* line 97: leaving the with block closes the NamedTemporaryFile, which
\* deletes it
CloseTmp(files, names) == [n \in DOMAIN files \ names |-> files[n]]

\* lines 102-104: except Exception, inside the with block or before it
GenerationFailed(at, type) ==
    /\ raised' = raised \cup {[at |-> at, type |-> type]}
    /\ display' = Append(display, ErrorElement)
    /\ pdf_buffer' = None
    /\ fs' = CloseTmp(fs, tmp)
    /\ tmp' = {}
    /\ pc' = "offer"

\* line 80: estimate.to_pdf = estimate.to_pdf stores the bound method in
\* the instance
SetToPdfAttribute(e) ==
    [a \in DOMAIN e \cup {"to_pdf"} |->
        IF a = "to_pdf" THEN "bound method Estimate.to_pdf" ELSE e[a]]

\* lines 76-97: the attribute assignment, the reportlab import, the memory
\* buffer and canvas, and the NamedTemporaryFile entering its with block
BeginGenerate ==
    /\ pc = "generate"
    /\ estimate' = SetToPdfAttribute(estimate)
    /\ LET free == TmpNames \ DOMAIN fs
       IN  IF ~reportlab
           THEN /\ GenerationFailed("import", "ImportError")
           ELSE IF free = {}
           THEN /\ GenerationFailed("tempfile", "OSError")
           ELSE LET name == CHOOSE n \in free : \A m \in free : n <= m
                IN  /\ pdf_buffer' = BytesIO(<<>>)
                    /\ tmp' = {name}
                    /\ fs' = [n \in DOMAIN fs \cup {name} |->
                                 IF n = name THEN <<>> ELSE fs[n]]
                    /\ pc' = "write"
                    /\ UNCHANGED <<display, raised>>
    /\ UNCHANGED <<reportlab, typed, form, room, prices, probe, pdfCalls,
                   escaped, shown, earlier>>

\* tmp.name of the open temporary file
TmpName(open) == CHOOSE n \in open : TRUE

\* line 98: estimate.to_pdf(tmp.name)
WritePdf ==
    /\ pc = "write"
    /\ pdfCalls' = Append(pdfCalls, TmpPath(TmpName(tmp)))
    /\ \E outcome \in ToPdfOutcomes(reportlab) :
          IF outcome = "ok"
          THEN /\ fs' = [fs EXCEPT ![TmpName(tmp)] = PdfBytes(estimate)]
               /\ pc' = "read"
               /\ UNCHANGED <<display, pdf_buffer, raised, tmp>>
          ELSE GenerationFailed("generate", outcome)
    /\ UNCHANGED <<reportlab, typed, form, room, prices, estimate, probe,
                   escaped, shown, earlier>>

\* lines 99-101: tmp.seek(0); pdf_buffer.write(tmp.read()); the with block
\* ends; pdf_buffer.seek(0)
ReadBack ==
    /\ pc = "read"
    /\ \E outcome \in {"ok", "OSError"} :
          IF outcome = "ok"
          THEN /\ pdf_buffer' = BytesIO(pdf_buffer.bytes \o fs[TmpName(tmp)])
               /\ fs' = CloseTmp(fs, tmp)
               /\ tmp' = {}
               /\ pc' = "offer"
               /\ UNCHANGED <<display, raised>>
          ELSE GenerationFailed("read", outcome)
    /\ UNCHANGED <<reportlab, typed, form, room, prices, estimate, probe,
                   pdfCalls, escaped, shown, earlier>>

\* line 106: if pdf_buffer -- an io.BytesIO object is true even when empty
Truthy(buffer) == buffer # None

\* lines 106-112: st.download_button(...)
OfferDownload ==
    /\ pc = "offer"
    /\ display' = IF Truthy(pdf_buffer)
                  THEN Append(display, DownloadButton(pdf_buffer))
                  ELSE display
    /\ pc' = "idle"
    /\ UNCHANGED <<reportlab, typed, form, room, prices, estimate, pdf_buffer,
                   probe, pdfCalls, raised, escaped, shown, tmp, fs, earlier>>

Next ==
    \/ \E t \in TypedInputs : Submit(t)
    \/ CreateEstimate
    \/ ShowText
    \/ ProbePdf
    \/ BeginGenerate
    \/ WritePdf
    \/ ReadBack
    \/ OfferDownload

Spec == Init /\ [][Next]_vars

-----------------------------------------------------------------------------
(* Properties *)

HasEstimate == estimate # NoObject

\* the values the widgets returned, by widget
l == form["length"]
w == form["width"]
h == form["height"]
o == form["openings"]
rate == form["labour_rate"]

Perimeter == QMul(Two, QAdd(l, w))
GrossWall == QMul(Perimeter, h)

\* C1: the estimate holds exactly four line items in the order wall covering,
\* flooring, baseboard, disposal; their quantities are the net wall area, the
\* floor area, the perimeter and the floor area; each subtotal is quantity
\* times the unit price of its own category; materialSubtotal is the sum of
\* the four subtotals (5 x 4 x 2.5 without openings at 1200/8000/900/500
\* gives 54000, 160000, 16200, 10000 and 240200).
C1_FourLineItems ==
    HasEstimate =>
        LET it == estimate["items"]
        IN  /\ Len(it) = 4
            /\ [i \in 1..4 |-> it[i].label] =
                   <<"wall covering", "flooring", "baseboard", "disposal">>
            /\ it[1].quantity = QMax(Zero, QSub(GrossWall, o))
            /\ it[2].quantity = QMul(l, w)
            /\ it[3].quantity = Perimeter
            /\ it[4].quantity = QMul(l, w)
            /\ it[1].unitPrice = form["cross_price"]
            /\ it[2].unitPrice = form["floor_price"]
            /\ it[3].unitPrice = form["baseboard_price"]
            /\ it[4].unitPrice = form["disposal_price"]
            /\ \A i \in 1..4 : it[i].subtotal = QMul(it[i].quantity, it[i].unitPrice)
            /\ estimate["materialSubtotal"] =
                   QAdd(QAdd(it[1].subtotal, it[2].subtotal),
                        QAdd(it[3].subtotal, it[4].subtotal))
            /\ typed = Untouched =>
                   /\ [i \in 1..4 |-> it[i].subtotal] =
                          <<Q(54000, 1), Q(160000, 1), Q(16200, 1), Q(10000, 1)>>
                   /\ estimate["materialSubtotal"] = Q(240200, 1)

\* the estimate of the form as loaded: material subtotal 240200
C1_Witness ==
    /\ HasEstimate
    /\ typed = Untouched
    /\ estimate["materialSubtotal"] = Q(240200, 1)

C2_FractionReached == HasEstimate /\ estimate["laborCost"].d # 1

\* C3: the net wall area is never negative: it is the gross wall area minus
\* the openings when that is not negative and 0 otherwise; when it is
\* clamped the wall covering subtotal is 0 and the other three subtotals
\* are those of the same room without openings.
C3_NetWallClamped ==
    HasEstimate =>
        LET it == estimate["items"]
            same == create_estimate_for_room(
                        [room EXCEPT !.openings_area = Zero], prices)["items"]
        IN  /\ QLeq(Zero, it[1].quantity)
            /\ IF QLeq(o, GrossWall)
               THEN it[1].quantity = QSub(GrossWall, o)
               ELSE /\ it[1].quantity = Zero
                    /\ it[1].subtotal = Zero
                    /\ \A i \in 2..4 : it[i].subtotal = same[i].subtotal

\* openings of 50 m2 against 45 m2 of wall: the net wall area is clamped
C3_Witness ==
    /\ HasEstimate
    /\ o = Q(50, 1)
    /\ GrossWall = Q(45, 1)
    /\ estimate["items"][1].quantity = Zero
    /\ estimate["materialSubtotal"] = Q(186200, 1)

\* C4: without the drawing library a rendering request ends in the
\* 'reportlab required' notice, with no unhandled error and no generic
\* failure message; the text report is displayed before any to_pdf call and
\* stays the first element of the page whatever the PDF outcome is.
C4_UnavailableIsDistinct ==
    /\ (~reportlab /\ probe # "none") =>
           /\ pc = "idle"
           /\ Kinds(display) = <<"text", "info">>
           /\ ~escaped
    /\ (pdfCalls # <<>> \/ (HasEstimate /\ pc \notin {"text"})) =>
           /\ Len(display) >= 1
           /\ display[1].kind = "text"
           /\ display[1].body = to_text(estimate)

\* a finished run without the drawing library: text report, then the notice
C4_Witness ==
    /\ ~reportlab
    /\ pc = "idle"
    /\ Len(pdfCalls) = 1
    /\ Kinds(display) = <<"text", "info">>

Shows(kind) == \E i \in DOMAIN display : display[i].kind = kind

\* C5: every failure of document rendering, at the probe or at the real
\* generation and of any exception type, is reported as a non-fatal error
\* and never leaves main; a download is offered only when no rendering step
\* of the run raised.
C5_NoFailureEscapes ==
    /\ ~escaped
    /\ (pc = "idle" /\ raised # {}) => (Shows("error") \/ Shows("info"))
    /\ Shows("download_button") => raised = {}

\* C6: once a run has finished, whatever path the PDF export took, no
\* temporary file created by the export exists.
C6_NoTemporaryFileLeft ==
    pc \in {"idle", "create", "text", "probe", "generate", "offer"} =>
        DOMAIN fs = {} /\ tmp = {}

\* a finished run whose export created a temporary file and failed while
\* reading it back
C6_Witness ==
    /\ pc = "idle"
    /\ \E r \in raised : r.at = "read"
    /\ Len(pdfCalls) = 2

\* a finished run whose export succeeded
C6_SuccessReached == pc = "idle" /\ Shows("download_button")

\* C7 (as claimed): Estimate.to_pdf is invoked at most once per submission.
C7_SingleInvocation == Len(pdfCalls) <= 1

\* C7 (amended): Estimate.to_pdf is invoked at most twice per submission:
\* first as the availability probe writing to /dev/null and, only when the
\* probe raised nothing, once more to write the temporary file.
C7_ProbeThenGenerate ==
    /\ Len(pdfCalls) <= 2
    /\ Len(pdfCalls) >= 1 => pdfCalls[1] = DevNull
    /\ Len(pdfCalls) = 2 =>
           /\ probe = "ok"
           /\ pdfCalls[2].file = "NamedTemporaryFile"

\* a run that called to_pdf twice
C7_Witness == Len(pdfCalls) = 2 /\ pdfCalls[1] = DevNull

InRange(f, x) == QLeq(MinValue(f), x) /\ QLeq(x, MaxValue(f))

\* C8: whenever create_estimate_for_room is about to be called the four
\* dimensions and the four unit prices are >= 0 and the labour rate is in
\* [0, 1]; a typed value inside the widget's range is passed on unchanged
\* and one outside it is not clamped into the range: the widget keeps the
\* default it showed.
C8_ValidInputsOnly ==
    pc = "create" =>
        /\ \A a \in {"length", "width", "height", "openings_area"} :
               QLeq(Zero, room[a])
        /\ \A a \in PriceFields : QLeq(Zero, prices[a])
        /\ QLeq(Zero, prices["labour_rate"]) /\ QLeq(prices["labour_rate"], One)
        /\ \A f \in DOMAIN typed :
               form[f] = IF InRange(f, typed[f]) THEN typed[f]
                         ELSE WidgetDefault(f, shown)

\* the calculation is about to start after an out-of-range value was typed
C8_Witness ==
    /\ pc = "create"
    /\ \E f \in DOMAIN typed : ~InRange(f, typed[f])

\* C9: every run starts from the catalog defaults, so its estimate is a
\* function of what was typed in that run alone: a run that submits the
\* form as loaded gets the estimate the first such run got, whatever was
\* submitted in between.
C9_RunsDoNotInterfere ==
    /\ shown # NoObject =>
           shown = [a \in PriceFields \cup {"labour_rate"} |-> UnitPrices[a]]
    /\ HasEstimate =>
           LET f == FormValues(typed, UnitPrices)
           IN  EstimateData(estimate) =
                   create_estimate_for_room(MakeRoom(f), AssignPrices(UnitPrices, f))
    /\ (HasEstimate /\ earlier # None /\ typed = earlier.typed) =>
           EstimateData(estimate) = earlier.estimate

\* the form as loaded is submitted again after a run with other input
C9_Witness ==
    /\ HasEstimate
    /\ earlier # None
    /\ earlier.others
    /\ typed = earlier.typed

\* C10: after text rendering, the probe and the PDF generation the Estimate
\* object is as the calculator returned it, no attribute added or
\* reassigned, and the text report shown is the text of the estimate.
C10_EstimateImmutable ==
    HasEstimate =>
        /\ estimate = create_estimate_for_room(room, prices)
        /\ display # <<>> => display[1].body = to_text(estimate)

====
